---- MODULE Spec2Model ----
(***************************************************************************)
(* Model of the trading core of nebulahh/vision:                           *)
(*   - EnhancedTradingAnalyzer (tradingDecision module, src/unnamed/       *)
(*     part_000): score calculators, weighted score, decision table;       *)
(*   - RiskManager (src/src/trading-bot.js): daily-loss state, the         *)
(*     scheduled reset and validateTrade.                                  *)
(*   - the four provider calls of analyzeTradeOpportunity and their        *)
(*     Promise.all, with the /analyze handler around them;                 *)
(*   - TechnicalStrategyManager and ConsolidatedTelegramTradingBot         *)
(*     (src/src/trading-bot.js): the strategy registry, the /strategy and  *)
(*     /settp commands, analyzePair and executeTrade;                      *)
(*   - the notifications the bot sends to its authorized users on the      *)
(*     'trade', 'error' and 'analysis' events of tradingBot.               *)
(*                                                                         *)
(* Numbers are fixed point with Scale units per 1.0 (0.75 is 7500); the  *)
(* input grids are chosen so that every product and quotient is exact.     *)
(* JavaScript values are tagged records [t, v]: t is "num", "nan",         *)
(* "undef" or "obj"; v is the number (for "obj": the score field of the    *)
(* {score, confidence} object).                                            *)
(***************************************************************************)
EXTENDS Integers, Sequences, FiniteSets, TLC

Scale == 100 * 100

\* ------------------------------------------------------------------------
\* JavaScript values and operators
\* ------------------------------------------------------------------------
Num(n) == [t |-> "num", v |-> n]

NaN == [t |-> "nan", v |-> 0]

Undefined == [t |-> "undef", v |-> 0]

\* the object literal {score, confidence}: only score is kept, confidence
\* is never read by any caller
Obj(score) == [t |-> "obj", v |-> score]

IsNum(x) == x.t = "num"

\* x * c for a numeric literal c (c in Scale units); ToNumber of undefined
\* or of a plain object is NaN
JsMul(x, c) == IF IsNum(x) THEN Num((x.v * c) \div Scale) ELSE NaN

\* x + y where both operands already went through a multiplication
JsAdd(x, y) == IF IsNum(x) /\ IsNum(y) THEN Num(x.v + y.v) ELSE NaN

\* x < c and x > c: every comparison with NaN, undefined or an object is false
JsLt(x, c) == IsNum(x) /\ x.v < c

JsGt(x, c) == IsNum(x) /\ x.v > c

\* ------------------------------------------------------------------------
\* EnhancedTradingAnalyzer: pure functions
\* ------------------------------------------------------------------------
\* sizeImpact is the result of this.normalizeTradeSize(tradeSize), a
\* collaborator outside the class; it is an input of the model.
calculateWhaleScore(metrics, sizeImpact) ==
    LET buyPressure == (metrics.recentBuys.volume * Scale) \div metrics.recentBuys.timeFrame
        holdingQuality == (metrics.holdingTime * metrics.walletAge) \div Scale
    IN  Num((buyPressure * 4000) \div Scale
            + (holdingQuality * 4000) \div Scale
            + (sizeImpact * 2000) \div Scale)

\* accumulation and walletQuality are the results of
\* this.analyzeAccumulationPattern and this.assessWalletQuality (inputs).
analyzeSmartMoney(flow, accumulation, walletQuality) ==
    LET netFlow == flow.inflowRate - flow.outflowRate
    IN  Obj((netFlow * 4000) \div Scale
            + (accumulation * 3000) \div Scale
            + (walletQuality * 3000) \div Scale)

\* scores.name: a property the object literal does not have reads undefined
Prop(scores, name) == IF name \in DOMAIN scores THEN scores[name] ELSE Undefined

determineAction_swapped(scores) ==
    IF JsLt(Prop(scores, "riskScore"), 7000) THEN "AVOID"
    ELSE IF JsLt(Prop(scores, "healthScore"), 5000) THEN "WAIT"
    ELSE IF JsGt(Prop(scores, "whaleScore"), 8000)
            /\ JsGt(Prop(scores, "smartMoneyScore"), 7000)
         THEN "STRONG_BUY"
    ELSE IF JsGt(Prop(scores, "overallScore"), 7500) THEN "BUY" ELSE "MONITOR"

determineAction_riskLast(scores) ==
    IF JsGt(Prop(scores, "whaleScore"), 8000)
       /\ JsGt(Prop(scores, "smartMoneyScore"), 7000)
    THEN "STRONG_BUY"
    ELSE IF JsLt(Prop(scores, "riskScore"), 7000) THEN "AVOID"
    ELSE IF JsLt(Prop(scores, "healthScore"), 5000) THEN "WAIT"
    ELSE IF JsGt(Prop(scores, "overallScore"), 7500) THEN "BUY" ELSE "MONITOR"

determineAction(scores) ==
    IF JsLt(Prop(scores, "riskScore"), 7000) THEN "AVOID"
    ELSE IF JsGt(Prop(scores, "whaleScore"), 8000)
            /\ JsGt(Prop(scores, "smartMoneyScore"), 7000)
         THEN "STRONG_BUY"
    ELSE IF JsLt(Prop(scores, "healthScore"), 5000) THEN "WAIT"
    ELSE IF JsGt(Prop(scores, "overallScore"), 7500) THEN "BUY" ELSE "MONITOR"

\* size, timing, stopLoss and takeProfit come from policy functions outside
\* the class (calculateOptimalPosition, suggestEntryTiming, ...); the model
\* keeps the action.
generateTradeRecommendation(scores) == [action |-> determineAction(scores)]

\* this.computeWeightedScore is not part of the class: it receives the four
\* already weighted scores and is modelled as their sum.
computeWeightedScore(weighted) ==
    JsAdd(JsAdd(weighted.whaleScore, weighted.healthScore),
          JsAdd(weighted.smartMoneyScore, weighted.riskScore))

\* The part of analyzeTradeOpportunity after the providers have answered;
\* p holds the provider results and the results of the helpers outside the
\* class: sizeImpact, accumulation, walletQuality, and healthScore and
\* riskScore (this.calculateHealthScore, this.calculateRiskScore).
\* The returned details are the provider results themselves; the scores
\* field is not part of the returned object, it records the four values
\* handed to the weighted sum and to the decision table.
analyzeTradeOpportunity(p) ==
    LET whaleScore == calculateWhaleScore(
                          [recentBuys |-> p.whaleActivity.buys,
                           holdingTime |-> p.whaleActivity.avgHoldTime,
                           walletAge |-> p.whaleActivity.walletAge], p.sizeImpact)
        smartMoneyScore == analyzeSmartMoney(
                          [inflowRate |-> p.smartMoneyFlow.inflow,
                           outflowRate |-> p.smartMoneyFlow.outflow],
                          p.accumulation, p.walletQuality)
        scores == [whaleScore |-> whaleScore, healthScore |-> p.healthScore,
                   smartMoneyScore |-> smartMoneyScore, riskScore |-> p.riskScore]
    IN  [overallScore |-> computeWeightedScore(
                              [whaleScore |-> JsMul(whaleScore, 3000),
                               healthScore |-> JsMul(p.healthScore, 2500),
                               smartMoneyScore |-> JsMul(smartMoneyScore, 2500),
                               riskScore |-> JsMul(p.riskScore, 2000)]),
         recommendation |-> generateTradeRecommendation(scores),
         scores |-> scores]

\* ------------------------------------------------------------------------
\* State
\* ------------------------------------------------------------------------
VARIABLES
    request,         \* analyzer: the call being made and its inputs
    response,        \* analyzer: what the call returned
    maxLossPerTrade, \* RiskManager.maxLossPerTrade (percent)
    maxDailyLoss,    \* RiskManager.maxDailyLoss (percent)
    dailyLoss,       \* RiskManager.dailyLoss (percent)
    scheduledJobs,   \* number of '0 0 * * *' jobs registered with the scheduler
    day,             \* day boundaries passed since construction
    resetCount,      \* invocations of the reset callback since construction
    lastEvt,         \* last change of dailyLoss: "init", "settle", "reset", "resetAtLimit"
    running,         \* the validateTrade call on the JavaScript stack, 0 if none
    pc,              \* per caller: position of its validateTrade call
    trade,           \* per caller: the trade passed to validateTrade
    seen,            \* per caller: dailyLoss as read by the daily-limit check
    seenEvt,         \* per caller: lastEvt when the daily-limit check ran
    seenResets,      \* per caller: resetCount when the daily-limit check ran
    result,          \* per caller: the value the returned promise resolved to
    provider,        \* analyzer: state of each of the four provider promises
    failures,        \* analyzer: the providers that failed, in the order they failed
    join,            \* analyzer: state of the Promise.all over the four providers
    chatReply,       \* /analyze handler: what it sent after the "Analyzing" notice
    strategies,      \* TechnicalStrategyManager.strategies: the Map, in insertion order
    pendingReply,    \* the ctx.reply a /strategy or /settp handler is awaiting
    xpc,             \* executeTrade: position of the call chain
    xdepth,          \* executeTrade: invocations of the current call chain
    xactive,         \* executeTrade: key of the activeStrategy the running invocation holds
    xincoming,       \* executeTrade: the trade as the caller passed it
    xtrade,          \* executeTrade: the trade object, as mutated so far
    outcome,         \* how the last executeTrade or analyzePair call ended
    event,           \* notifications: the tradingBot event being handled
    fanout,          \* notifications: state of the handler's loop over the recipients
    delivery         \* notifications: per recipient, the state of its delivery

analyzerVars == <<request, response>>

joinVars == <<provider, failures, join, chatReply>>

botVars == <<strategies, pendingReply, xpc, xdepth, xactive, xincoming, xtrade, outcome>>

\* what the RiskManager's and the analyzer's pure operations leave alone
notifyVars == <<event, fanout, delivery>>

otherVars == <<joinVars, botVars, notifyVars>>

riskVars == <<maxLossPerTrade, maxDailyLoss, dailyLoss, scheduledJobs, day,
              resetCount, lastEvt, running, pc, trade, seen, seenEvt, seenResets, result>>

vars == <<request, response, maxLossPerTrade, maxDailyLoss, dailyLoss,
          scheduledJobs, day, resetCount, lastEvt, running, pc, trade, seen,
          seenEvt, seenResets, result, provider, failures, join, chatReply,
          strategies, pendingReply, xpc, xdepth, xactive, xincoming, xtrade, outcome,
          event, fanout, delivery>>

\* ------------------------------------------------------------------------
\* Analyzer requests
\* ------------------------------------------------------------------------
UnitGrid == {0, 5000, 10000}

ScoreGrid == {4000, 5000, 7000, 7500, 8000, 9000}

JsScores == {Num(n) : n \in ScoreGrid} \cup {Undefined}

WhaleActivities ==
    [buys : [volume : {0, 10000, 20000}, timeFrame : {10000, 20000}],
     avgHoldTime : {5000, 10000},
     walletAge : {10000, 20000}]

SmartMoneyFlows == [inflow : UnitGrid, outflow : UnitGrid]

AnalyzeInputs ==
    [whaleActivity : WhaleActivities,
     sizeImpact : UnitGrid,
     healthScore : {Num(4000), Num(5000), Num(9000)},
     smartMoneyFlow : SmartMoneyFlows,
     accumulation : {0, 10000},
     walletQuality : {5000, 10000},
     riskScore : {Num(5000), Num(7000), Num(9000)}]

ScoreVectors ==
    [whaleScore : JsScores, healthScore : JsScores, smartMoneyScore : JsScores,
     riskScore : JsScores, overallScore : JsScores]

NoRequest == [kind |-> "none"]

NoResponse == [kind |-> "none"]

InitAnalyzerIdle == request = NoRequest /\ response = NoResponse

\* a caller invokes analyzeTradeOpportunity and the four providers answer
AnalyzeTradeOpportunity ==
    /\ request.kind = "analyze"
    /\ response.kind = "none"
    /\ response' = [kind |-> "analysis", value |-> analyzeTradeOpportunity(request.p)]
    /\ UNCHANGED <<request, riskVars>>

\* a caller invokes determineAction on a score vector of its own
DetermineAction ==
    /\ request.kind = "determine"
    /\ response.kind = "none"
    /\ response' = [kind |-> "action", action |-> determineAction(request.scores)]
    /\ UNCHANGED <<request, riskVars>>

\* ------------------------------------------------------------------------
\* analyzeTradeOpportunity: the four provider calls and their join
\* ------------------------------------------------------------------------
\* 1 getWhaleActivity, 2 getTokenMetrics, 3 getSmartMoneyFlow,
\* 4 assessManipulation; the error of provider i is identified by i
Providers == 1..4

NoJoin == [state |-> "idle", error |-> 0]

NoReply == [kind |-> "none"]

JoinIdle ==
    /\ provider = [i \in Providers |-> "idle"]
    /\ failures = <<>>
    /\ join = NoJoin
    /\ chatReply = NoReply

PromiseAll_allSettled(j, prov, i) ==
    IF j.state # "pending" THEN j
    ELSE IF \A k \in Providers : prov[k] \in {"fulfilled", "rejected"}
         THEN [state |-> "fulfilled", error |-> 0]
         ELSE j

\* Promise.all([...]) reacting to the settlement of provider i (prov is the
\* providers' state after it): it rejects with the first rejection, fulfils
\* when all four are fulfilled, and once settled ignores later settlements
PromiseAll(j, prov, i) ==
    IF j.state # "pending" THEN j
    ELSE IF prov[i] = "rejected" THEN [state |-> "rejected", error |-> i]
    ELSE IF \A k \in Providers : prov[k] = "fulfilled"
         THEN [state |-> "fulfilled", error |-> 0]
         ELSE j

\* a promise continuation (analyzeTradeOpportunity's await, then the
\* handler's await) is queued: it runs before any further provider answer
JoinContinuationQueued ==
    join.state \in {"fulfilled", "rejected"} /\ chatReply.kind = "none"

\* /analyze <token_address> <chain>: the handler replies "Analyzing" and
\* calls analyzeTradeOpportunity, which starts the four provider calls
AnalyzeCommand ==
    /\ request.kind = "analyze"
    /\ join.state = "idle"
    /\ provider' = [i \in Providers |-> "pending"]
    /\ join' = [state |-> "pending", error |-> 0]
    /\ UNCHANGED <<request, response, failures, chatReply, riskVars>>

\* provider i answers (ok) or fails
ProviderSettles(i, ok) ==
    /\ provider[i] = "pending"
    /\ ~JoinContinuationQueued
    /\ provider' = [provider EXCEPT ![i] = IF ok THEN "fulfilled" ELSE "rejected"]
    /\ failures' = IF ok THEN failures ELSE Append(failures, i)
    /\ join' = PromiseAll(join, provider', i)
    /\ UNCHANGED <<request, response, chatReply, riskVars>>

\* the continuation of `await Promise.all([...])`: a rejection is thrown out
\* of analyzeTradeOpportunity, otherwise the analysis is computed and returned
AnalyzeResume ==
    /\ join.state \in {"fulfilled", "rejected"}
    /\ response.kind = "none"
    /\ response' = IF join.state = "fulfilled"
                   THEN [kind |-> "analysis", value |-> analyzeTradeOpportunity(request.p)]
                   ELSE [kind |-> "error", error |-> join.error]
    /\ UNCHANGED <<request, joinVars, riskVars>>

\* the continuation of the handler's await: sendAnalysisReport(ctx, analysis),
\* or the catch block's reply with the error message
AnalyzeHandlerResume ==
    /\ response.kind # "none"
    /\ chatReply.kind = "none"
    /\ chatReply' = IF response.kind = "error"
                    THEN [kind |-> "error", error |-> response.error]
                    ELSE [kind |-> "report",
                          overallScore |-> response.value.overallScore,
                          recommendation |-> response.value.recommendation]
    /\ UNCHANGED <<request, response, provider, failures, join, riskVars>>

\* ------------------------------------------------------------------------
\* RiskManager
\* ------------------------------------------------------------------------
MaxDay == 2

MaxAccumulated == 7

MaxSettle == 3

Callers == {1, 2}

Configs == [maxLossPerTrade : {0, 1, 3}, maxDailyLoss : {0, 3}]

DefaultConfig == [maxLossPerTrade |-> 2, maxDailyLoss |-> 6]

Trades == [size : {50, 100, 150}, stopLoss : {2, 3}]

NoTrade == [size |-> 0, stopLoss |-> 0]

NoResult == [valid |-> FALSE, reason |-> "pending"]

\* { valid: false, reason: `Daily loss limit of ...% reached` }
DailyLimitResult == [valid |-> FALSE, reason |-> "dailyLimit"]

\* { valid: false, reason: `Trade risk exceeds maximum loss per trade of ...%` }
PerTradeLimitResult == [valid |-> FALSE, reason |-> "perTradeLimit"]

\* { valid: true }
ValidResult == [valid |-> TRUE, reason |-> "none"]

\* x || d on a configured number: 0 (like undefined and NaN) is falsy
OrDefault(x, d) == IF x = 0 THEN d ELSE x

\* resetDailyLoss registers one more job with the scheduler
resetDailyLoss(jobs) == jobs + 1

\* trade.size * (trade.stopLoss / 100), in hundredths of a percent
potentialLoss(t) == t.size * t.stopLoss

\* new RiskManager(config)
RiskManagerInit(config) ==
    /\ maxLossPerTrade = OrDefault(config.maxLossPerTrade, 2)
    /\ maxDailyLoss = OrDefault(config.maxDailyLoss, 6)
    /\ dailyLoss = 0
    /\ scheduledJobs = resetDailyLoss(0)
    /\ day = 0
    /\ resetCount = 0
    /\ lastEvt = "init"
    /\ running = 0
    /\ pc = [c \in Callers |-> "idle"]
    /\ trade = [c \in Callers |-> NoTrade]
    /\ seen = [c \in Callers |-> 0]
    /\ seenEvt = [c \in Callers |-> "init"]
    /\ seenResets = [c \in Callers |-> 0]
    /\ result = [c \in Callers |-> NoResult]

\* The event loop takes the next task (a timer callback, an incoming event)
\* only when no call is on the stack and no promise continuation is queued.
EventLoopIdle == running = 0 /\ \A c \in Callers : pc[c] # "resolved"

\* a caller enters validateTrade(t); the body runs on the caller's stack
ValidateCall(c, t) ==
    /\ running = 0
    /\ pc[c] = "idle"
    /\ running' = c
    /\ pc' = [pc EXCEPT ![c] = "checkDaily"]
    /\ trade' = [trade EXCEPT ![c] = t]
    /\ UNCHANGED <<maxLossPerTrade, maxDailyLoss, dailyLoss, scheduledJobs, day,
                   resetCount, lastEvt, seen, seenEvt, seenResets, result, analyzerVars>>

ValidateCheckDaily_strict(c) ==
    /\ pc[c] = "checkDaily"
    /\ seen' = [seen EXCEPT ![c] = dailyLoss]
    /\ seenEvt' = [seenEvt EXCEPT ![c] = lastEvt]
    /\ seenResets' = [seenResets EXCEPT ![c] = resetCount]
    /\ IF dailyLoss > maxDailyLoss
       THEN /\ result' = [result EXCEPT ![c] = DailyLimitResult]
            /\ pc' = [pc EXCEPT ![c] = "resolved"]
            /\ running' = 0
       ELSE /\ pc' = [pc EXCEPT ![c] = "checkTrade"]
            /\ UNCHANGED <<result, running>>
    /\ UNCHANGED <<maxLossPerTrade, maxDailyLoss, dailyLoss, scheduledJobs, day,
                   resetCount, lastEvt, trade, analyzerVars>>

ValidateCheckDaily_await(c) ==
    /\ pc[c] = "checkDaily"
    /\ seen' = [seen EXCEPT ![c] = dailyLoss]
    /\ seenEvt' = [seenEvt EXCEPT ![c] = lastEvt]
    /\ seenResets' = [seenResets EXCEPT ![c] = resetCount]
    /\ IF dailyLoss >= maxDailyLoss
       THEN /\ result' = [result EXCEPT ![c] = DailyLimitResult]
            /\ pc' = [pc EXCEPT ![c] = "resolved"]
            /\ running' = 0
       ELSE /\ pc' = [pc EXCEPT ![c] = "checkTrade"]
            /\ running' = 0
            /\ UNCHANGED result
    /\ UNCHANGED <<maxLossPerTrade, maxDailyLoss, dailyLoss, scheduledJobs, day,
                   resetCount, lastEvt, trade, analyzerVars>>

\* if (this.dailyLoss >= this.maxDailyLoss) return {valid: false, ...};
\* otherwise the body goes on, without an await, to the per-trade check
ValidateCheckDaily(c) ==
    /\ pc[c] = "checkDaily"
    /\ seen' = [seen EXCEPT ![c] = dailyLoss]
    /\ seenEvt' = [seenEvt EXCEPT ![c] = lastEvt]
    /\ seenResets' = [seenResets EXCEPT ![c] = resetCount]
    /\ IF dailyLoss >= maxDailyLoss
       THEN /\ result' = [result EXCEPT ![c] = DailyLimitResult]
            /\ pc' = [pc EXCEPT ![c] = "resolved"]
            /\ running' = 0
       ELSE /\ pc' = [pc EXCEPT ![c] = "checkTrade"]
            /\ UNCHANGED <<result, running>>
    /\ UNCHANGED <<maxLossPerTrade, maxDailyLoss, dailyLoss, scheduledJobs, day,
                   resetCount, lastEvt, trade, analyzerVars>>

ValidateCheckTrade_inclusive(c) ==
    /\ pc[c] = "checkTrade"
    /\ result' = [result EXCEPT ![c] =
                     IF potentialLoss(trade[c]) >= maxLossPerTrade * 100
                     THEN PerTradeLimitResult ELSE ValidResult]
    /\ pc' = [pc EXCEPT ![c] = "resolved"]
    /\ running' = 0
    /\ UNCHANGED <<maxLossPerTrade, maxDailyLoss, dailyLoss, scheduledJobs, day,
                   resetCount, lastEvt, trade, seen, seenEvt, seenResets, analyzerVars>>

ValidateCheckTrade_accumulates(c) ==
    /\ pc[c] = "checkTrade"
    /\ result' = [result EXCEPT ![c] =
                     IF potentialLoss(trade[c]) > maxLossPerTrade * 100
                     THEN PerTradeLimitResult ELSE ValidResult]
    /\ dailyLoss' = IF potentialLoss(trade[c]) > maxLossPerTrade * 100
                    THEN dailyLoss ELSE dailyLoss + 1
    /\ pc' = [pc EXCEPT ![c] = "resolved"]
    /\ running' = 0
    /\ UNCHANGED <<maxLossPerTrade, maxDailyLoss, scheduledJobs, day,
                   resetCount, lastEvt, trade, seen, seenEvt, seenResets, analyzerVars>>

\* const potentialLoss = ...; if (potentialLoss > this.maxLossPerTrade)
\* return {valid: false, ...}; return {valid: true}
ValidateCheckTrade(c) ==
    /\ pc[c] = "checkTrade"
    /\ result' = [result EXCEPT ![c] =
                     IF potentialLoss(trade[c]) > maxLossPerTrade * 100
                     THEN PerTradeLimitResult ELSE ValidResult]
    /\ pc' = [pc EXCEPT ![c] = "resolved"]
    /\ running' = 0
    /\ UNCHANGED <<maxLossPerTrade, maxDailyLoss, dailyLoss, scheduledJobs, day,
                   resetCount, lastEvt, trade, seen, seenEvt, seenResets, analyzerVars>>

\* the continuation of the caller's await receives the result
\* (validateStrategy's `return await`, executeTrade's `await`)
ValidateResume(c) ==
    /\ running = 0
    /\ pc[c] = "resolved"
    /\ pc' = [pc EXCEPT ![c] = "idle"]
    /\ trade' = [trade EXCEPT ![c] = NoTrade]
    /\ seen' = [seen EXCEPT ![c] = 0]
    /\ seenEvt' = [seenEvt EXCEPT ![c] = "init"]
    /\ seenResets' = [seenResets EXCEPT ![c] = 0]
    /\ result' = [result EXCEPT ![c] = NoResult]
    /\ UNCHANGED <<maxLossPerTrade, maxDailyLoss, dailyLoss, scheduledJobs, day,
                   resetCount, lastEvt, running, analyzerVars>>

DayBoundary_wrongField ==
    /\ EventLoopIdle
    /\ day < MaxDay
    /\ day' = day + 1
    /\ resetCount' = resetCount + scheduledJobs
    /\ dailyLoss' = dailyLoss
    /\ lastEvt' = IF dailyLoss >= maxDailyLoss THEN "resetAtLimit" ELSE "reset"
    /\ UNCHANGED <<maxLossPerTrade, maxDailyLoss, scheduledJobs, running, pc,
                   trade, seen, seenEvt, seenResets, result, analyzerVars>>

\* midnight: the scheduler invokes the callback of every registered
\* '0 0 * * *' job: () => { this.dailyLoss = 0; }
DayBoundary ==
    /\ EventLoopIdle
    /\ day < MaxDay
    /\ day' = day + 1
    /\ resetCount' = resetCount + scheduledJobs
    /\ dailyLoss' = IF scheduledJobs > 0 THEN 0 ELSE dailyLoss
    /\ lastEvt' = IF dailyLoss >= maxDailyLoss THEN "resetAtLimit" ELSE "reset"
    /\ UNCHANGED <<maxLossPerTrade, maxDailyLoss, scheduledJobs, running, pc,
                   trade, seen, seenEvt, seenResets, result, analyzerVars>>

\* Settlement of a realized loss of l percent after a trade closed. The
\* execution boundary that performs it (CrossChainTradingBot) is not among
\* the sources; it is modelled from the specification's RiskState contract.
SettleLoss(l) ==
    /\ EventLoopIdle
    /\ dailyLoss + l <= MaxAccumulated
    /\ dailyLoss' = dailyLoss + l
    /\ lastEvt' = "settle"
    /\ UNCHANGED <<maxLossPerTrade, maxDailyLoss, scheduledJobs, day, resetCount,
                   running, pc, trade, seen, seenEvt, seenResets, result, analyzerVars>>

\* ------------------------------------------------------------------------
\* TechnicalStrategyManager: the strategy registry
\* ------------------------------------------------------------------------
\* A Map is the sequence of its entries [key, value] in insertion order.
MapHas(m, k) == \E i \in 1..Len(m) : m[i].key = k

MapIndex(m, k) == CHOOSE i \in 1..Len(m) : m[i].key = k

\* Map.prototype.get, for a key the map has
MapGet(m, k) == m[MapIndex(m, k)].value

\* Map.prototype.set: an existing key keeps its position, a new one is appended
MapSet(m, k, v) ==
    IF MapHas(m, k)
    THEN [m EXCEPT ![MapIndex(m, k)] = [key |-> k, value |-> v]]
    ELSE Append(m, [key |-> k, value |-> v])

\* the object spread {...a, ...b}: b's properties override a's
Spread(a, b) ==
    [k \in DOMAIN a \cup DOMAIN b |-> IF k \in DOMAIN b THEN b[k] ELSE a[k]]

addStrategy_suppliedWins(m, id, strategy, now) ==
    MapSet(m, id, Spread([enabled |-> FALSE, timestamp |-> now], strategy))

\* this.strategies.set(id, {...strategy, enabled: false, timestamp: Date.now()})
addStrategy(m, id, strategy, now) ==
    MapSet(m, id, Spread(strategy, [enabled |-> FALSE, timestamp |-> now]))

\* calculatePositionSizing(targets)
calculatePositionSizing(targets) ==
    [index \in 1..Len(targets) |->
        [percentage |-> IF index = 1 THEN 40 ELSE 30, target |-> targets[index]]]

\* The literal passed to addStrategy by initializeTechnicalStrategies; of
\* entryConditions only stopLoss, takeProfitTargets and positionSizing are
\* ever read. The three literals write their positionSizing out; it equals
\* calculatePositionSizing of their targets.
BuiltIn(name, targets) ==
    [name |-> name,
     entryConditions |-> [stopLoss |-> 2,
                          takeProfitTargets |-> targets,
                          positionSizing |-> calculatePositionSizing(targets)]]

initializeTechnicalStrategies(m, now) ==
    addStrategy(
        addStrategy(
            addStrategy(m, "breakout",
                        BuiltIn("Smart Breakout Trading", <<6, 12, 18>>), now),
            "movingAverages",
            BuiltIn("Triple Moving Average Crossover", <<5, 10, 15>>), now),
        "volumeAnalysis", BuiltIn("Smart Volume Analysis", <<4, 8, 12>>), now)

\* Array.from(strategies.values()).find(strategy => strategy.enabled): the
\* index of the first enabled entry, 0 for undefined
FindEnabled_last(m) ==
    IF \E i \in 1..Len(m) : m[i].value.enabled
    THEN CHOOSE i \in 1..Len(m) :
            m[i].value.enabled /\ \A j \in (i + 1)..Len(m) : ~m[j].value.enabled
    ELSE 0

FindEnabled(m) ==
    IF \E i \in 1..Len(m) : m[i].value.enabled
    THEN CHOOSE i \in 1..Len(m) :
            m[i].value.enabled /\ \A j \in 1..(i - 1) : ~m[j].value.enabled
    ELSE 0

\* ------------------------------------------------------------------------
\* /settp: parsing of the targets
\* ------------------------------------------------------------------------
\* parseFloat of a word of the message: the words of the model are the
\* decimal numerals "6" and "12" and a word without a leading numeral
parseFloat(word) ==
    CASE word = "6" -> Num(6)
      [] word = "12" -> Num(12)
      [] OTHER -> NaN

isNaN(x) == ~IsNum(x)

RECURSIVE SortAscending(_)
\* Array.prototype.sort((a, b) => a - b) on numbers (the sort is stable)
SortAscending(a) ==
    IF Len(a) <= 1 THEN a
    ELSE LET rest == SortAscending(Tail(a))
             h == Head(a)
         IN  SelectSeq(rest, LAMBDA x : x.v < h.v) \o <<h>> \o
             SelectSeq(rest, LAMBDA x : x.v >= h.v)

ParseTargets_unsorted(targets) ==
    LET parsed == [i \in 1..Len(targets) |-> parseFloat(targets[i])]
        kept == SelectSeq(parsed, LAMBDA t : ~isNaN(t))
    IN  [i \in 1..Len(kept) |-> kept[i].v]

\* targets.map(t => parseFloat(t)).filter(t => !isNaN(t)).sort((a, b) => a - b),
\* as the array of numbers it is
ParseTargets(targets) ==
    LET parsed == [i \in 1..Len(targets) |-> parseFloat(targets[i])]
        sorted == SortAscending(SelectSeq(parsed, LAMBDA t : ~isNaN(t)))
    IN  [i \in 1..Len(sorted) |-> sorted[i].v]

\* ------------------------------------------------------------------------
\* ConsolidatedTelegramTradingBot: /strategy, /settp, analyzePair, executeTrade
\* ------------------------------------------------------------------------
MaxTargets == 3

MaxDepth == 3

\* the words a message is split into
Words == {"6", "12", "abc"}

\* strategy ids named in commands; "nosuch" is not a key of the registry
SettpIds == {"breakout", "movingAverages", "nosuch"}

ActivateIds == {"breakout", "movingAverages", "volumeAnalysis", "nosuch", ""}

\* the message of a /settp command after the command word
SettpArgs ==
    {<<>>} \cup
    UNION {{<<id>> \o targets : id \in SettpIds, targets \in [1..n -> Words]} :
           n \in 0..MaxTargets}

\* the /settp messages with at most one target
ShortSettpArgs == {words \in SettpArgs : Len(words) <= 2}

\* an array property that was never assigned, and one that was
UnsetArray == [t |-> "undef", v |-> <<>>]

Array(a) == [t |-> "array", v |-> a]

\* trades handed to executeTrade: they carry a stop-loss of their own and
\* no take-profit targets
ExecTrades ==
    [size : {100, 150}, entryPrice : {200}, stopLoss : {3},
     takeProfitTargets : {UnsetArray}]

NoExecTrade == [size |-> 0, entryPrice |-> 0, stopLoss |-> 0, takeProfitTargets |-> UnsetArray]

NoOutcome == [op |-> "none", kind |-> "none", error |-> "none", reason |-> "none"]

\* throw new Error('No active strategy found')
NoActiveStrategy(op) ==
    [op |-> op, kind |-> "error", error |-> "noActiveStrategy", reason |-> "none"]

\* throw new Error(`Trade validation failed: ${validation.reason}`)
ValidationFailed(reason) ==
    [op |-> "executeTrade", kind |-> "error", error |-> "validationFailed", reason |-> reason]

\* positionSizing[index] is undefined: reading .percentage throws a TypeError
SizingTypeError ==
    [op |-> "executeTrade", kind |-> "error", error |-> "typeError", reason |-> "none"]

\* the caller of validateTrade that executeTrade is (through validateStrategy)
ExecCaller == 1

\* new TechnicalStrategyManager(config); no command received, no call made
BotConstructed ==
    /\ strategies = initializeTechnicalStrategies(<<>>, 1)
    /\ pendingReply = "none"
    /\ xpc = "idle"
    /\ xdepth = 0
    /\ xactive = ""
    /\ xincoming = NoExecTrade
    /\ xtrade = NoExecTrade
    /\ outcome = NoOutcome

\* A command handler or an incoming call starts only when the event loop is
\* idle and no continuation of an executeTrade chain is queued (every await
\* of executeTrade is on a promise that is already resolved).
BotIdle == EventLoopIdle /\ xpc = "idle"

StrategyCommand_toggle(action, strategyId) ==
    /\ BotIdle
    /\ IF action = "list"
       THEN pendingReply' = "list" /\ UNCHANGED strategies
       ELSE IF action = "activate" /\ strategyId # "" /\ MapHas(strategies, strategyId)
       THEN /\ strategies' = MapSet(strategies, strategyId,
                                 [MapGet(strategies, strategyId) EXCEPT
                                     !.enabled = ~MapGet(strategies, strategyId).enabled])
            /\ pendingReply' = "activated"
       ELSE UNCHANGED <<strategies, pendingReply>>
    /\ UNCHANGED <<xpc, xdepth, xactive, xincoming, xtrade, outcome,
                   riskVars, analyzerVars, joinVars>>

StrategyCommand_exclusive(action, strategyId) ==
    /\ BotIdle
    /\ IF action = "list"
       THEN pendingReply' = "list" /\ UNCHANGED strategies
       ELSE IF action = "activate" /\ strategyId # "" /\ MapHas(strategies, strategyId)
       THEN /\ strategies' =
                  [i \in 1..Len(strategies) |->
                      [key |-> strategies[i].key,
                       value |-> [strategies[i].value EXCEPT
                                     !.enabled = (strategies[i].key = strategyId)]]]
            /\ pendingReply' = "activated"
       ELSE UNCHANGED <<strategies, pendingReply>>
    /\ UNCHANGED <<xpc, xdepth, xactive, xincoming, xtrade, outcome,
                   riskVars, analyzerVars, joinVars>>

\* /strategy <action> <strategyId>: list replies with the registry;
\* activate sets strategy.enabled = true and replies; anything else, an
\* unknown or a missing id included, does nothing and replies nothing
StrategyCommand(action, strategyId) ==
    /\ BotIdle
    /\ IF action = "list"
       THEN pendingReply' = "list" /\ UNCHANGED strategies
       ELSE IF action = "activate" /\ strategyId # "" /\ MapHas(strategies, strategyId)
       THEN /\ strategies' = MapSet(strategies, strategyId,
                                 [MapGet(strategies, strategyId) EXCEPT !.enabled = TRUE])
            /\ pendingReply' = "activated"
       ELSE UNCHANGED <<strategies, pendingReply>>
    /\ UNCHANGED <<xpc, xdepth, xactive, xincoming, xtrade, outcome,
                   riskVars, analyzerVars, joinVars>>

Settp_staleSizing(words) ==
    LET strategyId == IF Len(words) >= 1 THEN words[1] ELSE ""
        targets == IF Len(words) >= 1 THEN Tail(words) ELSE <<>>
    IN  /\ BotIdle
        /\ IF strategyId = "" \/ Len(targets) = 0
           THEN pendingReply' = "usage" /\ UNCHANGED strategies
           ELSE IF ~MapHas(strategies, strategyId)
           THEN pendingReply' = "notFound" /\ UNCHANGED strategies
           ELSE /\ strategies' = MapSet(strategies, strategyId,
                       [MapGet(strategies, strategyId) EXCEPT
                           !.entryConditions.takeProfitTargets = ParseTargets(targets)])
                /\ pendingReply' = "updated"
        /\ UNCHANGED <<xpc, xdepth, xactive, xincoming, xtrade, outcome,
                       riskVars, analyzerVars, joinVars>>

\* /settp <strategy> <target1> ...: both arrays are assigned before the
\* handler's only await, the one on ctx.reply
Settp(words) ==
    LET strategyId == IF Len(words) >= 1 THEN words[1] ELSE ""
        targets == IF Len(words) >= 1 THEN Tail(words) ELSE <<>>
        takeProfitTargets == ParseTargets(targets)
    IN  /\ BotIdle
        /\ IF strategyId = "" \/ Len(targets) = 0
           THEN pendingReply' = "usage" /\ UNCHANGED strategies
           ELSE IF ~MapHas(strategies, strategyId)
           THEN pendingReply' = "notFound" /\ UNCHANGED strategies
           ELSE /\ strategies' = MapSet(strategies, strategyId,
                       [MapGet(strategies, strategyId) EXCEPT
                           !.entryConditions.takeProfitTargets = takeProfitTargets,
                           !.entryConditions.positionSizing =
                               calculatePositionSizing(takeProfitTargets)])
                /\ pendingReply' = "updated"
        /\ UNCHANGED <<xpc, xdepth, xactive, xincoming, xtrade, outcome,
                       riskVars, analyzerVars, joinVars>>

\* Telegram has taken the reply: the handler's await ctx.reply(...) returns
\* and the handler ends
ReplyDelivered ==
    /\ BotIdle
    /\ pendingReply # "none"
    /\ pendingReply' = "none"
    /\ UNCHANGED <<strategies, xpc, xdepth, xactive, xincoming, xtrade, outcome,
                   riskVars, analyzerVars, joinVars>>

\* analyzePair(symbol); performAnalysis is not among the sources, the call
\* of it is recorded with the key of the strategy it is given
AnalyzePair ==
    /\ BotIdle
    /\ outcome' = IF FindEnabled(strategies) = 0
                  THEN NoActiveStrategy("analyzePair")
                  ELSE [op |-> "analyzePair", kind |-> "performAnalysis", error |-> "none",
                        reason |-> strategies[FindEnabled(strategies)].key]
    /\ UNCHANGED <<strategies, pendingReply, xpc, xdepth, xactive, xincoming, xtrade,
                   riskVars, analyzerVars, joinVars>>

\* executeTrade up to its await: the first enabled strategy is looked up;
\* without one the call throws, otherwise validateStrategy enters
\* validateTrade({...trade, stopLoss: strategy.entryConditions.stopLoss})
ExecuteTradeEnter(tr) ==
    LET i == FindEnabled(strategies)
    IN  IF i = 0
        THEN /\ outcome' = NoActiveStrategy("executeTrade")
             /\ xpc' = "idle"
             /\ xactive' = ""
             /\ UNCHANGED <<riskVars, analyzerVars>>
        ELSE /\ outcome' = NoOutcome
             /\ xpc' = "awaiting"
             /\ xactive' = strategies[i].key
             /\ ValidateCall(ExecCaller,
                    [size |-> tr.size,
                     stopLoss |-> strategies[i].value.entryConditions.stopLoss])

\* a caller invokes executeTrade(t)
ExecuteTrade(t) ==
    /\ BotIdle
    /\ xincoming' = t
    /\ xtrade' = t
    /\ xdepth' = 1
    /\ ExecuteTradeEnter(t)
    /\ UNCHANGED <<strategies, pendingReply, joinVars>>

\* price: trade.entryPrice * (1 + target / 100), in hundredths
TargetPrice(entryPrice, target) == entryPrice * (100 + target)

\* positionSize: percentage / 100 * trade.size, in hundredths
TargetSize(percentage, size) == percentage * size

\* the trade after lines 372-378 ran on it
PreparedTrade(tr, strategy) ==
    [tr EXCEPT
        !.takeProfitTargets = Array(
            [index \in 1..Len(strategy.entryConditions.takeProfitTargets) |->
                [price |-> TargetPrice(tr.entryPrice,
                               strategy.entryConditions.takeProfitTargets[index]),
                 positionSize |-> TargetSize(
                               strategy.entryConditions.positionSizing[index].percentage,
                               tr.size)]]),
        !.stopLoss = strategy.entryConditions.stopLoss]

ExecuteTradeResume_prepareFirst ==
    LET validation == result[ExecCaller]
        activeStrategy == MapGet(strategies, xactive)
    IN  /\ xpc = "awaiting"
        /\ ValidateResume(ExecCaller)
        /\ xtrade' = PreparedTrade(xtrade, activeStrategy)
        /\ IF ~validation.valid
           THEN outcome' = ValidationFailed(validation.reason) /\ xpc' = "idle"
           ELSE xpc' = "recursing" /\ UNCHANGED outcome
        /\ UNCHANGED <<strategies, pendingReply, xdepth, xactive, xincoming, joinVars>>

\* the continuation of executeTrade's await: a declined validation is
\* thrown; otherwise the trade object is prepared from activeStrategy, the
\* reference taken before the await
ExecuteTradeResume ==
    LET validation == result[ExecCaller]
        activeStrategy == MapGet(strategies, xactive)
    IN  /\ xpc = "awaiting"
        /\ ValidateResume(ExecCaller)
        /\ IF ~validation.valid
           THEN /\ outcome' = ValidationFailed(validation.reason)
                /\ xpc' = "idle"
                /\ UNCHANGED xtrade
           ELSE IF Len(activeStrategy.entryConditions.positionSizing)
                       < Len(activeStrategy.entryConditions.takeProfitTargets)
           THEN /\ outcome' = SizingTypeError
                /\ xpc' = "idle"
                /\ UNCHANGED xtrade
           ELSE /\ xtrade' = PreparedTrade(xtrade, activeStrategy)
                /\ xpc' = "recursing"
                /\ UNCHANGED outcome
        /\ UNCHANGED <<strategies, pendingReply, xdepth, xactive, xincoming, joinVars>>

\* return await this.executeTrade(trade): the function calls itself with
\* the trade it has just prepared
ExecuteTradeRecurse ==
    /\ xpc = "recursing"
    /\ xdepth < MaxDepth
    /\ xdepth' = xdepth + 1
    /\ ExecuteTradeEnter(xtrade)
    /\ UNCHANGED <<strategies, pendingReply, xincoming, xtrade, joinVars>>

\* ------------------------------------------------------------------------
\* ConsolidatedTelegramTradingBot: notifications on tradingBot events
\* ------------------------------------------------------------------------
\* this.authorizedUsers, a Set: the loops visit it in insertion order
Recipients == 1..4

\* x >= c: false for NaN, undefined and an object
JsGe(x, c) == IsNum(x) /\ x.v >= c

\* The overallScore of the analysis the 'trade' handler awaits. The
\* analyzer of this model reports NaN; as computeWeightedScore is not among
\* the sources, numbers on both sides of 0.7 are handed to the handler too.
TradeScores == {NaN, Num(5000), Num(7000), Num(9000)}

\* analysis.opportunity.score of an 'analysis' event
OpportunityScores == {Num(79), Num(80), Num(95)}

Events ==
    {[kind |-> "trade", score |-> x] : x \in TradeScores}
    \cup {[kind |-> "error", score |-> Undefined]}
    \cup {[kind |-> "analysis", score |-> x] : x \in OpportunityScores}

NoEvent == [kind |-> "none", score |-> Undefined]

NotifyIdle ==
    /\ event = NoEvent
    /\ fanout = "idle"
    /\ delivery = [r \in Recipients |-> "notStarted"]

\* sendTradeNotification(userId, trade): sendMessage is awaited inside
\* try/catch, a failed delivery is logged and the call returns normally
sendTradeNotification(ok) == IF ok THEN "sent" ELSE "caught"

\* sendErrorNotification and sendOpportunityAlert are not among the sources;
\* they are taken to be best-effort senders like sendTradeNotification
sendErrorNotification(ok) == IF ok THEN "sent" ELSE "caught"

sendOpportunityAlert(ok) == IF ok THEN "sent" ELSE "caught"

Send(kind, ok) ==
    CASE kind = "trade" -> sendTradeNotification(ok)
      [] kind = "error" -> sendErrorNotification(ok)
      [] OTHER -> sendOpportunityAlert(ok)

\* the condition under which the handler of the event enters its loop
Qualifies(e) ==
    CASE e.kind = "trade" -> JsGe(e.score, 7000)
      [] e.kind = "analysis" -> JsGe(e.score, 80)
      [] OTHER -> TRUE

\* tradingBot emits an event: its handler runs (for 'trade', once the
\* awaited analysis is there) and, if the event qualifies, enters
\* `for (const userId of this.authorizedUsers) await send...(userId, ...)`,
\* which calls the sender for the first recipient. One event's handler is
\* followed at a time.
OnEvent(e) ==
    /\ fanout \in {"idle", "done", "skipped"}
    /\ event' = e
    /\ IF Qualifies(e)
       THEN /\ fanout' = "running"
            /\ delivery' = [r \in Recipients |-> IF r = 1 THEN "pending" ELSE "notStarted"]
       ELSE /\ fanout' = "skipped"
            /\ delivery' = [r \in Recipients |-> "notStarted"]
    /\ UNCHANGED <<riskVars, analyzerVars, joinVars, botVars>>

\* the sendMessage for recipient r succeeds or fails; the sender returns,
\* the loop's await resumes and the sender is called for the next recipient
DeliverySettles(r, ok) ==
    /\ fanout = "running"
    /\ delivery[r] = "pending"
    /\ delivery' = [q \in Recipients |->
                       IF q = r THEN Send(event.kind, ok)
                       ELSE IF q = r + 1 THEN "pending"
                       ELSE delivery[q]]
    /\ fanout' = IF r + 1 \in Recipients THEN "running" ELSE "done"
    /\ UNCHANGED <<event, riskVars, analyzerVars, joinVars, botVars>>

\* ------------------------------------------------------------------------
\* Specifications
\* ------------------------------------------------------------------------
\* RiskManager under every configuration, no analyzer call in progress
Init ==
    /\ InitAnalyzerIdle
    /\ JoinIdle
    /\ BotConstructed
    /\ NotifyIdle
    /\ \E config \in Configs \cup {DefaultConfig} : RiskManagerInit(config)

Next ==
    \/ \E c \in Callers, t \in Trades : ValidateCall(c, t) /\ UNCHANGED otherVars
    \/ \E c \in Callers : ValidateCheckDaily(c) /\ UNCHANGED otherVars
    \/ \E c \in Callers : ValidateCheckTrade(c) /\ UNCHANGED otherVars
    \/ \E c \in Callers : ValidateResume(c) /\ UNCHANGED otherVars
    \/ DayBoundary /\ UNCHANGED otherVars
    \/ \E l \in 1..MaxSettle : SettleLoss(l) /\ UNCHANGED otherVars

Spec == Init /\ [][Next]_vars

\* one analyzer call on every input of the grids, RiskManager as constructed
InitAnalyzer ==
    /\ \/ \E p \in AnalyzeInputs : request = [kind |-> "analyze", p |-> p]
       \/ \E sv \in ScoreVectors : request = [kind |-> "determine", scores |-> sv]
    /\ response = NoResponse
    /\ JoinIdle
    /\ BotConstructed
    /\ NotifyIdle
    /\ RiskManagerInit(DefaultConfig)

NextAnalyzer ==
    \/ AnalyzeTradeOpportunity /\ UNCHANGED otherVars
    \/ DetermineAction /\ UNCHANGED otherVars

SpecAnalyzer == InitAnalyzer /\ [][NextAnalyzer]_vars

\* one /analyze command: the four providers answer or fail in every order
JoinInputs ==
    {p \in AnalyzeInputs :
        /\ p.whaleActivity = [buys |-> [volume |-> 10000, timeFrame |-> 10000],
                              avgHoldTime |-> 10000, walletAge |-> 10000]
        /\ p.sizeImpact = 10000 /\ p.accumulation = 0 /\ p.walletQuality = 10000
        /\ p.smartMoneyFlow = [inflow |-> 10000, outflow |-> 0]
        /\ p.healthScore = Num(9000)}

InitJoin ==
    /\ \E p \in JoinInputs : request = [kind |-> "analyze", p |-> p]
    /\ response = NoResponse
    /\ JoinIdle
    /\ BotConstructed
    /\ NotifyIdle
    /\ RiskManagerInit(DefaultConfig)

NextJoin ==
    \/ AnalyzeCommand /\ UNCHANGED <<botVars, notifyVars>>
    \/ \E i \in Providers, ok \in BOOLEAN : ProviderSettles(i, ok) /\ UNCHANGED <<botVars, notifyVars>>
    \/ AnalyzeResume /\ UNCHANGED <<botVars, notifyVars>>
    \/ AnalyzeHandlerResume /\ UNCHANGED <<botVars, notifyVars>>

SpecJoin == InitJoin /\ [][NextJoin]_vars

\* the providers that are sure to answer or fail; assessManipulation (4) may
\* stay silent for ever
Responsive == {1, 2, 3}

\* The same call under the scheduling JavaScript guarantees: a received
\* command is handled and a queued promise continuation runs. That the
\* responsive providers settle is an assumption on the environment; nothing
\* is assumed of the fourth, and the code sets no timer on any of them.
SpecJoinFair ==
    /\ InitJoin
    /\ [][NextJoin]_vars
    /\ WF_vars(AnalyzeCommand /\ UNCHANGED <<botVars, notifyVars>>)
    /\ WF_vars(AnalyzeResume /\ UNCHANGED <<botVars, notifyVars>>)
    /\ WF_vars(AnalyzeHandlerResume /\ UNCHANGED <<botVars, notifyVars>>)
    /\ \A i \in Responsive :
          WF_vars(\E ok \in BOOLEAN : ProviderSettles(i, ok) /\ UNCHANGED <<botVars, notifyVars>>)

\* the bot as constructed with the default risk limits
InitBot ==
    /\ InitAnalyzerIdle
    /\ JoinIdle
    /\ BotConstructed
    /\ NotifyIdle
    /\ RiskManagerInit(DefaultConfig)

\* the strategy registry under the /strategy and /settp commands
NextRegistry ==
    \/ \E action \in {"list", "activate"}, id \in ActivateIds :
          StrategyCommand(action, id) /\ UNCHANGED notifyVars
    \/ \E words \in SettpArgs : Settp(words) /\ UNCHANGED notifyVars
    \/ ReplyDelivered /\ UNCHANGED notifyVars

SpecRegistry == InitBot /\ [][NextRegistry]_vars

\* commands (of /settp the short messages), calls of analyzePair and
\* executeTrade, and settled losses
NextBot ==
    \/ \E action \in {"list", "activate"}, id \in ActivateIds :
          StrategyCommand(action, id) /\ UNCHANGED notifyVars
    \/ \E words \in ShortSettpArgs : Settp(words) /\ UNCHANGED notifyVars
    \/ ReplyDelivered /\ UNCHANGED notifyVars
    \/ AnalyzePair /\ UNCHANGED notifyVars
    \/ \E t \in ExecTrades : ExecuteTrade(t) /\ UNCHANGED notifyVars
    \/ ValidateCheckDaily(ExecCaller) /\ UNCHANGED otherVars
    \/ ValidateCheckTrade(ExecCaller) /\ UNCHANGED otherVars
    \/ ExecuteTradeResume /\ UNCHANGED notifyVars
    \/ ExecuteTradeRecurse /\ UNCHANGED notifyVars
    \/ BotIdle /\ SettleLoss(MaxSettle) /\ UNCHANGED otherVars

SpecBot == InitBot /\ [][NextBot]_vars

\* one /settp message, whatever its words, sent to the bot as constructed
InitSettp ==
    /\ \E words \in SettpArgs : request = [kind |-> "settp", words |-> words]
    /\ response = NoResponse
    /\ JoinIdle
    /\ BotConstructed
    /\ NotifyIdle
    /\ RiskManagerInit(DefaultConfig)

NextSettp ==
    \/ \E words \in SettpArgs :
          words = request.words /\ Settp(words) /\ UNCHANGED notifyVars
    \/ ReplyDelivered /\ UNCHANGED notifyVars

SpecSettp == InitSettp /\ [][NextSettp]_vars

\* the events of tradingBot and the deliveries of their notifications
NextNotify ==
    \/ \E e \in Events : OnEvent(e)
    \/ \E r \in Recipients, ok \in BOOLEAN : DeliverySettles(r, ok)

SpecNotify == InitBot /\ [][NextNotify]_vars

\* ------------------------------------------------------------------------
\* Claims on the analyzer (checked under SpecAnalyzer)
\* ------------------------------------------------------------------------
Determined == response.kind = "action"

Analyzed == response.kind = "analysis"

\* C1: whenever riskScore < 0.7 the action is AVOID, for a direct
\* determineAction call on any score vector and for the recommendation of
\* an analysis, whatever the other scores are.
C1_RiskDominates ==
    /\ (Determined /\ JsLt(request.scores.riskScore, 7000))
          => response.action = "AVOID"
    /\ (Analyzed /\ JsLt(response.value.scores.riskScore, 7000))
          => response.value.recommendation.action = "AVOID"

\* the specification's example: risk 0.5 with every other score high
C1_Witness ==
    /\ Determined
    /\ request.scores.riskScore = Num(5000)
    /\ request.scores.whaleScore = Num(9000)
    /\ request.scores.smartMoneyScore = Num(9000)
    /\ request.scores.healthScore = Num(9000)
    /\ request.scores.overallScore = Num(9000)
    /\ response.action = "AVOID"

AllNumeric(sv) ==
    /\ IsNum(sv.whaleScore) /\ IsNum(sv.healthScore) /\ IsNum(sv.smartMoneyScore)
    /\ IsNum(sv.riskScore) /\ IsNum(sv.overallScore)

\* C2: on a score vector of numbers in [0,1] the action is that of the
\* first matching rule: risk < 0.7 gives AVOID; else whale > 0.8 and smart
\* money > 0.7 gives STRONG_BUY, also with health < 0.5; else health < 0.5
\* gives WAIT; BUY and MONITOR appear only when none of the three matched.
C2_FirstMatchWins ==
    (Determined /\ AllNumeric(request.scores)) =>
        LET sv == request.scores
            r1 == sv.riskScore.v < 7000
            r2 == sv.whaleScore.v > 8000 /\ sv.smartMoneyScore.v > 7000
            r3 == sv.healthScore.v < 5000
        IN  /\ r1 => response.action = "AVOID"
            /\ (~r1 /\ r2) => response.action = "STRONG_BUY"
            /\ (~r1 /\ ~r2 /\ r3) => response.action = "WAIT"
            /\ (~r1 /\ ~r2 /\ ~r3) => response.action \in {"BUY", "MONITOR"}

\* rule 2 matched although rule 3 would match as well
C2_Witness ==
    /\ Determined
    /\ AllNumeric(request.scores)
    /\ request.scores.riskScore.v >= 7000
    /\ request.scores.whaleScore.v > 8000
    /\ request.scores.smartMoneyScore.v > 7000
    /\ request.scores.healthScore.v < 5000
    /\ response.action = "STRONG_BUY"

\* 0.3 whale + 0.25 health + 0.25 smart money + 0.2 risk of the four scores
\* computed for the request, each weight applied once; the smart-money
\* score is the score field of what analyzeSmartMoney returned.
WeightedOnce(sc) ==
    (sc.whaleScore.v * 3000) \div Scale + (sc.healthScore.v * 2500) \div Scale
    + (sc.smartMoneyScore.v * 2500) \div Scale + (sc.riskScore.v * 2000) \div Scale

\* C3: in the recommendation of an analysis where none of the first three
\* rules match, the action is BUY if the overall score of that analysis is
\* above 0.75 and MONITOR otherwise. The overall score is the weighted sum
\* of C4; the overallScore field itself is not a number on any request.
C3_BuyAboveThreshold ==
    Analyzed =>
        LET sc == response.value.scores
            r1 == sc.riskScore.v < 7000
            r2 == sc.whaleScore.v > 8000 /\ sc.smartMoneyScore.v > 7000
            r3 == sc.healthScore.v < 5000
        IN  (~r1 /\ ~r2 /\ ~r3) =>
                response.value.recommendation.action =
                    IF WeightedOnce(sc) > 7500 THEN "BUY" ELSE "MONITOR"

\* C4: the overallScore reported by an analysis is the number
\* 0.3 whale + 0.25 health + 0.25 smart money + 0.2 risk of the four scores
\* computed for that request.
C4_OverallIsWeightedSum ==
    Analyzed => response.value.overallScore = Num(WeightedOnce(response.value.scores))

InUnitRange(x) == IsNum(x) /\ 0 <= x.v /\ x.v <= Scale

\* C5: each of the four scores an analysis hands to the weighted sum and to
\* the decision table is a single number in [0,1].
C5_ScoresInUnitRange ==
    Analyzed =>
        /\ InUnitRange(response.value.scores.whaleScore)
        /\ InUnitRange(response.value.scores.healthScore)
        /\ InUnitRange(response.value.scores.smartMoneyScore)
        /\ InUnitRange(response.value.scores.riskScore)

\* ------------------------------------------------------------------------
\* Claims on the RiskManager (checked under Spec)
\* ------------------------------------------------------------------------
\* the daily-limit check of caller c has run and the call has not been consumed
Checked(c) == pc[c] \in {"checkTrade", "resolved"}

Returned(c) == pc[c] = "resolved"

\* C6: a validateTrade call that finds dailyLoss >= maxDailyLoss returns
\* invalid with the daily-limit reason whatever the trade is, and never
\* reaches the per-trade check.
C6_DailyLimitBlocks ==
    \A c \in Callers :
        (Checked(c) /\ seen[c] >= maxDailyLoss) =>
            (Returned(c) /\ result[c] = DailyLimitResult)

\* rejected for the daily limit with a trade the per-trade check would accept
C6_Witness ==
    \E c \in Callers :
        /\ Returned(c)
        /\ seen[c] >= maxDailyLoss
        /\ potentialLoss(trade[c]) <= maxLossPerTrade * 100
        /\ result[c] = DailyLimitResult

\* C7: a validateTrade call that finds dailyLoss < maxDailyLoss returns
\* invalid with the per-trade reason iff size * (stopLoss / 100) exceeds
\* maxLossPerTrade, and valid otherwise; a potential loss equal to the
\* maximum is valid.
C7_PerTradeLimit ==
    \A c \in Callers :
        (Returned(c) /\ seen[c] < maxDailyLoss) =>
            /\ (result[c] = PerTradeLimitResult)
                  <=> (trade[c].size * trade[c].stopLoss > maxLossPerTrade * 100)
            /\ (result[c] = ValidResult)
                  <=> (trade[c].size * trade[c].stopLoss <= maxLossPerTrade * 100)

\* a potential loss exactly at the maximum was accepted
C7_Witness ==
    \E c \in Callers :
        /\ Returned(c)
        /\ seen[c] < maxDailyLoss
        /\ trade[c].size * trade[c].stopLoss = maxLossPerTrade * 100
        /\ result[c] = ValidResult

\* C8: dailyLoss is never negative; it changes only by a settlement, which
\* increases it, and by the daily reset; and from a state with
\* dailyLoss >= maxDailyLoss, until the next reset, it stays at or above the
\* maximum and every daily-limit check rejects with the daily-limit reason.
C8_LimitHoldsUntilReset ==
    /\ [](dailyLoss >= 0)
    /\ [][dailyLoss' # dailyLoss =>
             \/ DayBoundary
             \/ (dailyLoss' > dailyLoss /\ \E l \in 1..MaxSettle : SettleLoss(l))]_vars
    /\ [][(dailyLoss >= maxDailyLoss /\ day' = day) =>
             /\ dailyLoss' >= maxDailyLoss
             /\ \A c \in Callers :
                  (pc[c] = "checkDaily" /\ pc'[c] # "checkDaily") =>
                      (pc'[c] = "resolved" /\ result'[c] = DailyLimitResult)]_vars

\* settlements brought the accumulator to the maximum and a call was rejected
C8_Witness ==
    /\ lastEvt = "settle"
    /\ dailyLoss >= maxDailyLoss
    /\ \E c \in Callers : Returned(c) /\ result[c] = DailyLimitResult

AfterReset(e) == e \in {"reset", "resetAtLimit"}

\* C9: the reset callback has run exactly once per day boundary; right
\* after it dailyLoss is 0; and a validateTrade call made after a reset and
\* before any further settlement is not rejected for the daily limit, also
\* when the accumulator was at the maximum when the reset fired.
C9_ResetOncePerDay ==
    /\ resetCount = day
    /\ AfterReset(lastEvt) => dailyLoss = 0
    /\ \A c \in Callers :
          (Checked(c) /\ AfterReset(seenEvt[c])) => result[c] # DailyLimitResult

\* the accumulator was at the maximum, the reset fired, a call was accepted
C9_Witness ==
    \E c \in Callers :
        /\ Returned(c)
        /\ seenEvt[c] = "resetAtLimit"
        /\ seenResets[c] = day
        /\ result[c] = ValidResult

\* what validateTrade returns for trade t when dailyLoss is d throughout
ValidateOutcome(d, t) ==
    IF d >= maxDailyLoss THEN DailyLimitResult
    ELSE IF t.size * t.stopLoss > maxLossPerTrade * 100 THEN PerTradeLimitResult
    ELSE ValidResult

\* C10: no reset (and no other change of dailyLoss) takes effect between the
\* daily-limit check of a validateTrade call and the continuation that
\* receives its result, and the result is the one computed from the value
\* of dailyLoss that the check read.
C10_ResetNeverMidValidation ==
    \A c \in Callers :
        /\ Checked(c) => (dailyLoss = seen[c] /\ resetCount = seenResets[c])
        /\ Returned(c) => result[c] = ValidateOutcome(seen[c], trade[c])

\* two calls in flight, one past its daily-limit check, with a positive
\* accumulator that a reset would change and a day boundary still to come
C10_Witness ==
    /\ day < MaxDay
    /\ dailyLoss > 0
    /\ pc[1] = "checkTrade"
    /\ pc[2] = "resolved"

\* ------------------------------------------------------------------------
\* Claims on the provider join (checked under SpecJoin)
\* ------------------------------------------------------------------------
\* C11: if any of the four provider calls fails, the analysis fails with
\* that error (the first failure), whatever the other three do and in
\* whatever order: the join is rejected at once, what analyzeTradeOpportunity
\* hands to its caller is the error alone, never an analysis, and the
\* /analyze handler answers with the error alone, never a report.
C11_ProviderFailureFailsAnalysis ==
    /\ failures # <<>> =>
          join = [state |-> "rejected", error |-> Head(failures)]
    /\ failures # <<>> /\ response.kind # "none" =>
          response = [kind |-> "error", error |-> Head(failures)]
    /\ failures # <<>> /\ chatReply.kind # "none" =>
          chatReply = [kind |-> "error", error |-> Head(failures)]
    /\ response.kind = "analysis" =>
          \A i \in Providers : provider[i] = "fulfilled"

\* two providers failed, one answered and one is still pending, and the
\* handler has replied with the first failure
C11_Witness ==
    /\ chatReply.kind = "error"
    /\ Len(failures) = 2
    /\ chatReply.error = failures[1]
    /\ \E i \in Providers : provider[i] = "fulfilled"
    /\ \E i \in Providers : provider[i] = "pending"

\* ------------------------------------------------------------------------
\* Claims on executeTrade (checked under SpecBot)
\* ------------------------------------------------------------------------
\* C12: executeTrade never re-enters itself: one call of it is one
\* invocation, which prepares the trade once and ends.
C12_NeverReenters == xdepth <= 1

ExecuteTradeFailed ==
    xpc = "idle" /\ outcome.op = "executeTrade" /\ outcome.kind = "error"

\* C13: when executeTrade cannot proceed the trade is left as the caller
\* passed it (takeProfitTargets and stopLoss untouched) and the error tells
\* the cause: the no-active-strategy error exactly when no strategy was
\* enabled, otherwise the trade-rejected error carrying the reason the
\* RiskManager gave (daily limit or per-trade limit).
C13_FailureLeavesTradeUnprepared ==
    /\ [](ExecuteTradeFailed =>
            /\ xtrade = xincoming
            /\ xtrade.takeProfitTargets = UnsetArray
            /\ \/ outcome = NoActiveStrategy("executeTrade")
               \/ /\ outcome = ValidationFailed("dailyLimit")
                  /\ dailyLoss >= maxDailyLoss
               \/ /\ outcome = ValidationFailed("perTradeLimit")
                  /\ xtrade.size * MapGet(strategies, xactive).entryConditions.stopLoss
                        > maxLossPerTrade * 100)
    /\ [][outcome' # outcome /\ outcome'.op = "executeTrade" /\ outcome'.kind = "error" =>
            /\ outcome'.error = "noActiveStrategy" <=>
                   \A i \in 1..Len(strategies) : ~strategies[i].value.enabled
            /\ outcome'.error = "validationFailed" =>
                   outcome'.reason = result[ExecCaller].reason]_vars

\* a trade above the per-trade limit was rejected with an enabled strategy,
\* after an earlier command changed that strategy's targets
C13_Witness ==
    /\ ExecuteTradeFailed
    /\ outcome = ValidationFailed("perTradeLimit")
    /\ xtrade.size = 150
    /\ xtrade.stopLoss = 3
    /\ MapGet(strategies, "breakout").enabled
    /\ Len(MapGet(strategies, "breakout").entryConditions.takeProfitTargets) = 1

Prepared == xtrade.takeProfitTargets.t = "array"

Validating == pc[ExecCaller] \in {"checkDaily", "checkTrade", "resolved"}

\* the entry of the registry that is enabled with no enabled entry before it
IsFirstEnabled(i) ==
    /\ strategies[i].value.enabled
    /\ \A j \in 1..Len(strategies) : j < i => ~strategies[j].value.enabled

\* C14: a prepared trade is built from the first enabled strategy in
\* insertion order and was validated with that strategy's stop-loss:
\* takeProfitTargets[i].price = entryPrice * (1 + target_i / 100),
\* takeProfitTargets[i].positionSize = positionSizing[i].percentage / 100 *
\* size, and stopLoss is the strategy's stop-loss.
C14_PreparedFromFirstEnabled ==
    /\ Validating =>
          \E i \in 1..Len(strategies) :
             /\ IsFirstEnabled(i)
             /\ xactive = strategies[i].key
             /\ trade[ExecCaller] =
                    [size |-> xtrade.size,
                     stopLoss |-> strategies[i].value.entryConditions.stopLoss]
    /\ Prepared =>
          \E i \in 1..Len(strategies) :
             LET ec == strategies[i].value.entryConditions
                 tp == xtrade.takeProfitTargets.v
             IN  /\ IsFirstEnabled(i)
                 /\ xactive = strategies[i].key
                 /\ xtrade.stopLoss = ec.stopLoss
                 /\ xtrade.size = xincoming.size
                 /\ xtrade.entryPrice = xincoming.entryPrice
                 /\ Len(tp) = Len(ec.takeProfitTargets)
                 /\ \A k \in 1..Len(tp) :
                       /\ tp[k].price * 100 =
                              xtrade.entryPrice * 100 * (100 + ec.takeProfitTargets[k])
                       /\ tp[k].positionSize * 100 =
                              ec.positionSizing[k].percentage * xtrade.size * 100

\* movingAverages is the first enabled strategy (volumeAnalysis is enabled
\* too, breakout is not), its targets were set to the single target 12, and
\* the trade carries that target: 200 * 1.12 = 224.00, 40% of 100 = 40.00
C14_Witness ==
    /\ Prepared
    /\ xactive = "movingAverages"
    /\ ~MapGet(strategies, "breakout").enabled
    /\ MapGet(strategies, "volumeAnalysis").enabled
    /\ xtrade.size = 100
    /\ xtrade.stopLoss = 2
    /\ xtrade.takeProfitTargets.v = <<[price |-> 22400, positionSize |-> 4000]>>

\* ------------------------------------------------------------------------
\* Claims on /settp (checked under SpecSettp and SpecRegistry)
\* ------------------------------------------------------------------------
\* the targets of the message that are the numeral n
CountWord(words, n) ==
    Cardinality({j \in 2..Len(words) : words[j] = n})

CountTarget(targets, n) ==
    Cardinality({k \in 1..Len(targets) : targets[k] = n})

\* C15: /settp on an existing strategy stores the numeric targets of the
\* message (each as often as it was given, the other words dropped) sorted
\* ascending, and positionSizing has one entry per stored target, with that
\* target and the percentage 40 for the first and 30 for every later one.
C15_SettpSortsAndSizes ==
    pendingReply = "updated" =>
        LET ec == MapGet(strategies, request.words[1]).entryConditions
            tp == ec.takeProfitTargets
        IN  /\ \A k \in 1..Len(tp) : tp[k] \in {6, 12}
            /\ CountTarget(tp, 6) = CountWord(request.words, "6")
            /\ CountTarget(tp, 12) = CountWord(request.words, "12")
            /\ \A k \in 1..Len(tp) : k > 1 => tp[k - 1] <= tp[k]
            /\ Len(ec.positionSizing) = Len(tp)
            /\ \A k \in 1..Len(tp) :
                  ec.positionSizing[k] =
                      [percentage |-> IF k = 1 THEN 40 ELSE 30, target |-> tp[k]]

\* "/settp breakout 12 6 12" stored [6, 12, 12] with sizing 40, 30, 30
C15_Witness ==
    /\ pendingReply = "updated"
    /\ request.words = <<"breakout", "12", "6", "12">>
    /\ MapGet(strategies, "breakout").entryConditions.takeProfitTargets = <<6, 12, 12>>
    /\ MapGet(strategies, "breakout").entryConditions.positionSizing[3].percentage = 30

\* C16: after any sequence of registry operations every strategy has
\* takeProfitTargets strictly ascending (no two equal targets) and a
\* positionSizing of the same length.
C16_TargetsStrictlyAscending ==
    \A i \in 1..Len(strategies) :
        LET ec == strategies[i].value.entryConditions
        IN  /\ \A k \in 1..Len(ec.takeProfitTargets) :
                  k > 1 => ec.takeProfitTargets[k - 1] < ec.takeProfitTargets[k]
            /\ Len(ec.positionSizing) = Len(ec.takeProfitTargets)

\* no strategy id, an id the registry does not have, an id without targets,
\* or a target that is not a number
Malformed(words) ==
    \/ Len(words) <= 1
    \/ ~MapHas(strategies, words[1])
    \/ \E j \in 2..Len(words) : words[j] \notin {"6", "12"}

\* C17: a /settp with malformed parameters (a non-numeric target among the
\* arguments, or a missing or unknown strategy id) leaves the registry as
\* it was, before and after the handler's answer.
C17_MalformedSettpMutatesNothing ==
    Malformed(request.words) => strategies = initializeTechnicalStrategies(<<>>, 1)

\* ------------------------------------------------------------------------
\* Claims on the registry and executeTrade together (checked under SpecBot)
\* ------------------------------------------------------------------------
\* positionSizing is the sizing computed for these very takeProfitTargets
SameUpdate(ec) ==
    /\ Len(ec.positionSizing) = Len(ec.takeProfitTargets)
    /\ \A k \in 1..Len(ec.takeProfitTargets) :
          ec.positionSizing[k].target = ec.takeProfitTargets[k]

\* C18: however /settp handlers and executeTrade calls interleave, the
\* await of executeTrade included, no strategy is ever visible with
\* takeProfitTargets and positionSizing from different updates, so the
\* preparation never reads such a pair: it never fails on a missing sizing
\* entry and the prepared trade has one entry per target of the strategy.
C18_SettpVisibleAtomically ==
    /\ \A i \in 1..Len(strategies) : SameUpdate(strategies[i].value.entryConditions)
    /\ outcome # SizingTypeError
    /\ Prepared =>
          Len(xtrade.takeProfitTargets.v) =
              Len(MapGet(strategies, xactive).entryConditions.takeProfitTargets)

\* a trade was prepared from the one target a /settp handler has just
\* stored, while that handler is still awaiting its reply
C18_Witness ==
    /\ pendingReply = "updated"
    /\ Prepared
    /\ xactive = "breakout"
    /\ MapGet(strategies, "breakout").entryConditions.takeProfitTargets = <<12>>
    /\ xtrade.takeProfitTargets.v = <<[price |-> 22400, positionSize |-> 4000]>>

\* the registry entries other than the one with key id, in order
OtherEntries(m, id) == SelectSeq(m, LAMBDA e : e.key # id)

\* C19: /strategy activate <id> on a registered id sets that strategy's
\* enabled to true and changes nothing else (no other strategy's enabled,
\* no field of the strategy, no key, no risk state, no trade); strategies
\* already enabled stay enabled; with an unknown or missing id nothing at
\* all changes.
C19_ActivateFrame ==
    [][\A id \in ActivateIds :
          StrategyCommand("activate", id) =>
              IF MapHas(strategies, id)
              THEN /\ MapGet(strategies', id) =
                         [MapGet(strategies, id) EXCEPT !.enabled = TRUE]
                   /\ [i \in 1..Len(strategies') |-> strategies'[i].key] =
                         [i \in 1..Len(strategies) |-> strategies[i].key]
                   /\ OtherEntries(strategies', id) = OtherEntries(strategies, id)
                   /\ UNCHANGED <<xpc, xdepth, xactive, xincoming, xtrade, outcome,
                                  riskVars, analyzerVars, joinVars>>
              ELSE UNCHANGED vars]_vars

\* movingAverages has just been activated while volumeAnalysis was enabled
\* already: both are enabled, breakout is not
C19_Witness ==
    /\ pendingReply = "activated"
    /\ MapGet(strategies, "movingAverages").enabled
    /\ MapGet(strategies, "volumeAnalysis").enabled
    /\ ~MapGet(strategies, "breakout").enabled

\* strategy objects handed to addStrategy: with and without an enabled
\* property and a timestamp of their own
SuppliedStrategies ==
    {Spread(BuiltIn("Custom", <<3, 9>>), extra) :
        extra \in {[name |-> "Custom"],
                   [enabled |-> TRUE],
                   [enabled |-> FALSE],
                   [enabled |-> TRUE, timestamp |-> 0]}}

NoneEnabled == \A i \in 1..Len(strategies) : ~strategies[i].value.enabled

\* C20: addStrategy stores the strategy with enabled = false and the
\* timestamp of the call, whatever enabled value the supplied object
\* carries and whether the id is new or registered; after construction no
\* built-in strategy is enabled, only /strategy activate enables one, and
\* as long as none is enabled every executeTrade and analyzePair call ends
\* with the no-active-strategy error and prepares nothing.
C20_NothingEnabledUntilActivate ==
    /\ NoneEnabled
    /\ [](\A supplied \in SuppliedStrategies, id \in {"breakout", "custom"} :
             LET stored == MapGet(addStrategy(strategies, id, supplied, 2), id)
             IN  /\ stored.enabled = FALSE
                 /\ stored.timestamp = 2
                 /\ stored.entryConditions = supplied.entryConditions)
    /\ [](NoneEnabled =>
             /\ outcome \in {NoOutcome, NoActiveStrategy("executeTrade"),
                              NoActiveStrategy("analyzePair")}
             /\ xpc = "idle"
             /\ ~Prepared)
    /\ [][~NoneEnabled' /\ NoneEnabled =>
             \E id \in ActivateIds : StrategyCommand("activate", id)]_vars

\* executeTrade was called before any activation and found no strategy
C20_Witness ==
    /\ NoneEnabled
    /\ outcome = NoActiveStrategy("executeTrade")
    /\ xtrade.size = 100
    /\ xdepth = 1

\* ------------------------------------------------------------------------
\* Claim on the provider join under fairness (checked under SpecJoinFair)
\* ------------------------------------------------------------------------
\* C21: no analysis request blocks for ever: even if one of the four
\* providers never responds, analyzeTradeOpportunity eventually completes
\* (with the failure a timeout stands for) and the handler eventually
\* answers.
C21_AnalysisEventuallyCompletes ==
    <>(response.kind # "none" /\ chatReply.kind # "none")

\* ------------------------------------------------------------------------
\* Claim on the notifications (checked under SpecNotify)
\* ------------------------------------------------------------------------
\* C22: the deliveries of one event are independent per recipient: while
\* the handler is notifying, no recipient's attempt is still to be made
\* behind a delivery to another recipient that has not completed, and
\* when the handler is through, an attempt was made for every recipient,
\* whatever failed.
C22_DeliveriesIndependent ==
    /\ fanout = "running" =>
          \A r \in Recipients, q \in Recipients :
              ~(delivery[r] = "notStarted" /\ delivery[q] = "pending")
    /\ fanout = "done" =>
          \A r \in Recipients : delivery[r] \in {"sent", "caught"}

\* ------------------------------------------------------------------------
\* Claim on the enabled flags (checked under SpecBot)
\* ------------------------------------------------------------------------
\* the registry keeps its entries, in their order, and no enabled flag goes
\* from true to false
EnabledMonotone ==
    /\ Len(strategies') = Len(strategies)
    /\ \A i \in 1..Len(strategies) :
          /\ strategies'[i].key = strategies[i].key
          /\ strategies[i].value.enabled => strategies'[i].value.enabled

\* the id is that of the earliest-registered entry that is enabled, which
\* under EnabledMonotone is the earliest-registered one ever activated
EarliestActivated(id) ==
    \E i \in 1..Len(strategies) : IsFirstEnabled(i) /\ strategies[i].key = id

\* a step in which analyzePair hands a strategy to performAnalysis, or
\* executeTrade enters the validation with the strategy it has looked up,
\* and the id of that strategy
SelectsStrategy(id) ==
    \/ /\ outcome' # outcome
       /\ outcome'.kind = "performAnalysis"
       /\ outcome'.reason = id
    \/ /\ xpc # "awaiting"
       /\ xpc' = "awaiting"
       /\ xactive' = id

\* C23: no step sets an enabled flag back to false or changes the order of
\* the registry, so the enabled strategies are those ever activated; every
\* strategy analyzePair or executeTrade selects is the earliest-registered
\* of them, and once 'breakout' is enabled every selection is 'breakout',
\* whatever else is activated.
C23_EnabledMonotoneSelection ==
    [][/\ EnabledMonotone
       /\ \A id \in ActivateIds :
             SelectsStrategy(id) =>
                /\ EarliestActivated(id)
                /\ MapGet(strategies, "breakout").enabled => id = "breakout"]_vars

\* all three strategies have been activated, the reply to the last
\* activation is still on its way, and analyzePair has handed breakout,
\* the earliest-registered one, to performAnalysis
C23_Witness ==
    /\ \A i \in 1..Len(strategies) : strategies[i].value.enabled
    /\ pendingReply = "activated"
    /\ outcome.op = "analyzePair"
    /\ outcome.kind = "performAnalysis"
    /\ outcome.reason = "breakout"
====
